---- MODULE Spec2Model ----
(***************************************************************************)
(* Model of generate_manifest.py: derive_prefix, derive_last3,             *)
(* scan_html_files, write_manifest and main.                               *)
(*                                                                         *)
(* A string is a sequence of characters, each written as a one-character   *)
(* string. Two characters outside ASCII are written by their code point:   *)
(* "U+0663" is ARABIC-INDIC DIGIT THREE (a decimal digit, so Python's \d   *)
(* matches it) and "U+00E9" is LATIN SMALL LETTER E WITH ACUTE (a letter   *)
(* that [A-Za-z] does not match).                                          *)
(***************************************************************************)
EXTENDS Integers, Sequences, FiniteSets, TLC

VARIABLES name, fpc, prefixOut, last3Out,
          dir, readable, csvFile, jsonFile, pc, listing, manifest, opened,
          failedAt, prev

fnVars  == <<name, fpc, prefixOut, last3Out>>
runVars == <<dir, readable, csvFile, jsonFile, pc, listing, manifest, opened,
             failedAt, prev>>
vars    == <<name, fpc, prefixOut, last3Out,
             dir, readable, csvFile, jsonFile, pc, listing, manifest, opened,
             failedAt, prev>>

(***************************************************************************)
(* Bounds of the model.                                                    *)
(***************************************************************************)
MaxStem == 1
MaxDigits == 4
MaxFiles == 2
MaxQuota == 30

(***************************************************************************)
(* Characters.                                                             *)
(***************************************************************************)
UpperAlpha == <<"A","B","C","D","E","F","G","H","I","J","K","L","M",
                "N","O","P","Q","R","S","T","U","V","W","X","Y","Z">>
LowerAlpha == <<"a","b","c","d","e","f","g","h","i","j","k","l","m",
                "n","o","p","q","r","s","t","u","v","w","x","y","z">>
DigitAlpha == <<"0","1","2","3","4","5","6","7","8","9">>

IsUpper(c) == \E i \in 1..Len(UpperAlpha) : UpperAlpha[i] = c
IsLower(c) == \E i \in 1..Len(LowerAlpha) : LowerAlpha[i] = c

\* [A-Za-z]
IsAsciiLetter(c) == IsUpper(c) \/ IsLower(c)

\* [0-9]
IsAsciiDigit(c) == \E i \in 1..Len(DigitAlpha) : DigitAlpha[i] = c

\* \d of a str pattern: every Unicode decimal digit, ASCII or not.
IsDigit(c) == IsAsciiDigit(c) \/ c = "U+0663"

\* str.lower() of one character (only ASCII letters reach it in the program).
LowerChar(c) ==
    IF IsUpper(c)
    THEN LowerAlpha[CHOOSE i \in 1..Len(UpperAlpha) : UpperAlpha[i] = c]
    ELSE c

\* The characters below U+0020, in code point order: those that a string
\* literal can hold as themselves, the others written by their code point.
ControlChars ==
    <<"U+0000", "U+0001", "U+0002", "U+0003", "U+0004", "U+0005", "U+0006", "U+0007",
      "U+0008", "\t",     "\n",     "U+000B", "\f",     "\r",     "U+000E", "U+000F",
      "U+0010", "U+0011", "U+0012", "U+0013", "U+0014", "U+0015", "U+0016", "U+0017",
      "U+0018", "U+0019", "U+001A", "U+001B", "U+001C", "U+001D", "U+001E", "U+001F">>

IsControl(c) == \E i \in 1..Len(ControlChars) : ControlChars[i] = c

\* ord(c) of a character below U+0020
ControlOrd(c) == (CHOOSE i \in 1..Len(ControlChars) : ControlChars[i] = c) - 1

\* ord(c): the code point that Python's string comparison orders by.
Ord(c) ==
    IF IsControl(c) THEN ControlOrd(c)
    ELSE IF IsUpper(c) THEN 64 + (CHOOSE i \in 1..Len(UpperAlpha) : UpperAlpha[i] = c)
    ELSE IF IsLower(c) THEN 96 + (CHOOSE i \in 1..Len(LowerAlpha) : LowerAlpha[i] = c)
    ELSE IF IsAsciiDigit(c) THEN 47 + (CHOOSE i \in 1..Len(DigitAlpha) : DigitAlpha[i] = c)
    ELSE CASE c = "(" -> 40
           [] c = ")" -> 41
           [] c = "-" -> 45
           [] c = "." -> 46
           [] c = "_" -> 95
           [] c = "U+00E9" -> 233
           [] c = "U+0663" -> 1635

RECURSIVE StrLess(_, _)
\* a < b on str: lexicographic by code point, a proper prefix first.
StrLess(a, b) ==
    IF b = <<>> THEN FALSE
    ELSE IF a = <<>> THEN TRUE
    ELSE IF Ord(Head(a)) # Ord(Head(b)) THEN Ord(Head(a)) < Ord(Head(b))
    ELSE StrLess(Tail(a), Tail(b))

(***************************************************************************)
(* derive_prefix                                                           *)
(***************************************************************************)
RECURSIVE RemoveNonLetters(_)
\* re.sub(r'[^A-Za-z]', '', name)
RemoveNonLetters(s) ==
    IF s = <<>> THEN <<>>
    ELSE IF IsAsciiLetter(Head(s))
         THEN <<Head(s)>> \o RemoveNonLetters(Tail(s))
         ELSE RemoveNonLetters(Tail(s))

\* str.lower()
Lower(s) == [i \in 1..Len(s) |-> LowerChar(s[i])]

\* s[:n]
Take(s, n) == SubSeq(s, 1, IF Len(s) < n THEN Len(s) ELSE n)

RECURSIVE Ljust(_, _, _)
\* s.ljust(width, fill)
Ljust(s, width, fill) ==
    IF Len(s) >= width THEN s ELSE Ljust(s \o <<fill>>, width, fill)

Amx == <<"a", "m", "x">>

\* A derive_prefix that pads and never falls back (the fallback test lost).
derive_prefix_padding(nm) ==
    LET letters == Lower(RemoveNonLetters(nm))
    IN  Ljust(IF letters # <<>> THEN Take(letters, 3) ELSE <<>>, 3, "x")

derive_prefix(nm) ==
    LET letters == Lower(RemoveNonLetters(nm))
        prefix  == Ljust(IF letters # <<>> THEN Take(letters, 3) ELSE <<>>, 3, "x")
    IN  IF Len(letters) < 3 THEN Amx ELSE prefix

(***************************************************************************)
(* derive_last3                                                            *)
(***************************************************************************)
\* s[p] with IGNORECASE against the lowercase letter c
CharIs(s, p, c) == p >= 1 /\ p <= Len(s) /\ LowerChar(s[p]) = c

\* $ at position p (the next character to read): the end of the string, or
\* just before a newline that is the last character.
DollarAt(s, p) == p = Len(s) + 1 \/ (p = Len(s) /\ s[p] = "\n")

\* \.html?$ matched from position p, IGNORECASE; l? is tried greedily and,
\* failing $, given back.
ExtAt(s, p) ==
    /\ p >= 1 /\ p <= Len(s) /\ s[p] = "."
    /\ CharIs(s, p + 1, "h")
    /\ CharIs(s, p + 2, "t")
    /\ CharIs(s, p + 3, "m")
    /\ \/ CharIs(s, p + 4, "l") /\ DollarAt(s, p + 5)
       \/ DollarAt(s, p + 4)

RECURSIVE DigitRunEnd(_, _)
\* \d+ from position p, greedy: the position after the longest run of digits
\* (p itself when there is none).
DigitRunEnd(s, p) ==
    IF p <= Len(s) /\ IsDigit(s[p]) THEN DigitRunEnd(s, p + 1) ELSE p

\* The pattern \((\d+)\)\.html?$ matched at start position i.
MatchAAt(s, i) ==
    LET e == DigitRunEnd(s, i + 1)
    IN  /\ s[i] = "("
        /\ e > i + 1
        /\ e <= Len(s) /\ s[e] = ")"
        /\ ExtAt(s, e + 1)

\* A Pattern B that lost its anchoring: [-.](\d+).*\.html?$
MatchBAtUnanchored(s, i) ==
    LET e == DigitRunEnd(s, i + 1)
    IN  /\ s[i] \in {"-", "."}
        /\ e > i + 1
        /\ \E q \in e..Len(s) : ExtAt(s, q)

\* The pattern [-.](\d+)\.html?$ matched at start position i.
MatchBAt(s, i) ==
    LET e == DigitRunEnd(s, i + 1)
    IN  /\ s[i] \in {"-", "."}
        /\ e > i + 1
        /\ ExtAt(s, e)

NoMatch == <<>>

\* re.search(r'\((\d+)\)\.html?$', name, flags=re.IGNORECASE): group(1) of the
\* leftmost match, NoMatch when there is none.
PatternA(s) ==
    LET starts == {i \in 1..Len(s) : MatchAAt(s, i)}
    IN  IF starts = {} THEN NoMatch
        ELSE LET i == CHOOSE k \in starts : \A o \in starts : k <= o
             IN  SubSeq(s, i + 1, DigitRunEnd(s, i + 1) - 1)

\* re.search(r'[-.](\d+)\.html?$', name, flags=re.IGNORECASE)
PatternB(s) ==
    LET starts == {i \in 1..Len(s) : MatchBAt(s, i)}
    IN  IF starts = {} THEN NoMatch
        ELSE LET i == CHOOSE k \in starts : \A o \in starts : k <= o
             IN  SubSeq(s, i + 1, DigitRunEnd(s, i + 1) - 1)

RECURSIVE Zfill(_, _)
\* digits.zfill(width) (the capture never starts with a sign)
Zfill(s, width) == IF Len(s) >= width THEN s ELSE Zfill(<<"0">> \o s, width)

\* s[-n:]
LastN(s, n) == IF Len(s) <= n THEN s ELSE SubSeq(s, Len(s) - n + 1, Len(s))

Zeros == <<"0", "0", "0">>

derive_last3(nm) ==
    LET a == PatternA(nm)
        b == PatternB(nm)
    IN  IF a # NoMatch THEN LastN(Zfill(a, 3), 3)
        ELSE IF b # NoMatch THEN LastN(Zfill(b, 3), 3)
        ELSE Zeros

(***************************************************************************)
(* The filenames the two derivers are applied to: a stem, then an opening  *)
(* (possibly empty, possibly holding a first digit group), a run of digits *)
(* and an optional ')', then an extension.                                 *)
(***************************************************************************)
SeqsUpTo(S, n) == UNION {[1..k -> S] : k \in 0..n}

StemChars == {"a", "B", "U+00E9", "1", "-"}
Opens  == {<<>>, <<"(">>, <<"-">>, <<".">>, <<"_">>,
           <<"-", "1", "(">>, <<"(", "1", ")", "-">>}
Closes == {<<>>, <<")">>}
DigitStrings == SeqsUpTo({"1", "2"}, MaxDigits)
                  \cup {<<"U+0663">>, <<"1", "U+0663">>}
Exts == { <<>>,
          <<".", "h">>,
          <<".", "h", "t", "m">>,
          <<".", "h", "t", "m", "l">>,
          <<".", "H", "t", "M", "l">>,
          <<".", "h", "t", "m", "l", "\n">>,
          <<".", "h", "t", "m", "l", "x">> }

DotHtml == <<".", "h", "t", "m", "l">>

\* The filenames the specification gives as examples.
SpecExamples ==
    { <<"r", "e", "p", "o", "r", "t">> \o DotHtml,
      <<"1", "2", "3">> \o DotHtml,
      <<"a", "(", "1", ")">> \o DotHtml,
      <<"p", "h", "o", "t", "o", "(", "1", "0", ")">> \o DotHtml,
      <<"s", "c", "a", "n", "-", "0", "7">> \o DotHtml,
      <<"a", "r", "c", "h", "i", "v", "e", ".", "5", "8", "0">> \o DotHtml,
      <<"p", "l", "a", "i", "n">> \o DotHtml,
      <<"i", "m", "a", "g", "e", "(", "1", "2", "3", "4", "5", ")">> \o DotHtml }

Names == {st \o o \o d \o c \o e :
            st \in SeqsUpTo(StemChars, MaxStem), o \in Opens,
            d \in DigitStrings, c \in Closes, e \in Exts}
           \cup SpecExamples

NotYet == <<"?">>

(***************************************************************************)
(* The directory of a run: entries drawn from a fixed set of filenames,    *)
(* at most MaxFiles of them at a time, beside the two output files.        *)
(***************************************************************************)
DirUniverse ==
    { <<"Z", "-", "U+0663">> \o DotHtml,
      <<"a", "(", "1", ")">> \o DotHtml,
      <<"a", "-", "1">> \o DotHtml,
      <<"Y", ".", "H", "T", "M", "L">> }

ManifestCsvName  == <<"m","a","n","i","f","e","s","t",".","c","s","v">>
ManifestJsonName == <<"m","a","n","i","f","e","s","t",".","j","s","o","n">>

Absent == [exists |-> FALSE, content |-> <<>>]

(***************************************************************************)
(* scan_html_files                                                         *)
(***************************************************************************)
Range(s) == {s[i] : i \in 1..Len(s)}

\* The orders in which a directory lister may yield the set S.
Orders(S) == {s \in [1..Cardinality(S) -> S] : Range(s) = S}

\* What the directory holds: its entries and the output files written so far.
Entries ==
    dir \cup (IF csvFile.exists THEN {ManifestCsvName} ELSE {})
        \cup (IF jsonFile.exists THEN {ManifestJsonName} ELSE {})

EndsWith(s, suffix) ==
    /\ Len(s) >= Len(suffix)
    /\ SubSeq(s, Len(s) - Len(suffix) + 1, Len(s)) = suffix

\* root_path.glob("*.html"), case-sensitive
GlobHtml(entries) == {e \in entries : EndsWith(e, DotHtml)}

RECURSIVE InsertPath(_, _)
InsertPath(x, s) ==
    IF s = <<>> THEN <<x>>
    ELSE IF StrLess(x, Head(s)) THEN <<x>> \o s
    ELSE <<Head(s)>> \o InsertPath(x, Tail(s))

RECURSIVE SortedPaths(_)
\* sorted(root_path.glob("*.html")): paths of one directory order by name.
SortedPaths(s) ==
    IF s = <<>> THEN <<>>
    ELSE InsertPath(s[Len(s)], SortedPaths(SubSeq(s, 1, Len(s) - 1)))

\* The dict appended to the manifest for one filename.
BuildRecord(filename) ==
    LET prefix == derive_prefix(filename)
        last3  == derive_last3(filename)
    IN  [id |-> prefix \o <<"_">> \o last3,
         prefix |-> prefix,
         last3 |-> last3,
         file |-> filename]

\* (x['prefix'], x['file']) < (y['prefix'], y['file'])
KeyLess(x, y) ==
    IF x.prefix # y.prefix THEN StrLess(x.prefix, y.prefix)
    ELSE StrLess(x.file, y.file)

RECURSIVE InsertRecord(_, _)
InsertRecord(x, s) ==
    IF s = <<>> THEN <<x>>
    ELSE IF KeyLess(x, Head(s)) THEN <<x>> \o s
    ELSE <<Head(s)>> \o InsertRecord(x, Tail(s))

\* A manifest left in the order it was built in.
Unsorted(m) == m

RECURSIVE SortManifest(_)
\* manifest.sort(key=lambda x: (x['prefix'], x['file'])), a stable sort
SortManifest(m) ==
    IF m = <<>> THEN <<>>
    ELSE InsertRecord(m[Len(m)], SortManifest(SubSeq(m, 1, Len(m) - 1)))

\* The body of scan_html_files on what the lister yielded.
BuildManifest(yielded) ==
    LET html_files == SortedPaths(yielded)
    IN  SortManifest([i \in 1..Len(html_files) |-> BuildRecord(html_files[i])])

(***************************************************************************)
(* write_manifest                                                          *)
(***************************************************************************)
Str_id     == <<"i", "d">>
Str_prefix == <<"p", "r", "e", "f", "i", "x">>
Str_last3  == <<"l", "a", "s", "t", "3">>
Str_file   == <<"f", "i", "l", "e">>
Fieldnames == <<Str_id, Str_prefix, Str_last3, Str_file>>

RECURSIVE JoinWith(_, _)
\* sep.join(parts)
JoinWith(parts, sep) ==
    IF parts = <<>> THEN <<>>
    ELSE IF Len(parts) = 1 THEN parts[1]
    ELSE parts[1] \o sep \o JoinWith(Tail(parts), sep)

\* The csv writer quotes a field that holds the delimiter, the quote
\* character or a character of the line terminator.
NeedsQuote(s) == \E i \in 1..Len(s) : s[i] \in {",", "\"", "\r", "\n"}

RECURSIVE DoubleQuotes(_)
DoubleQuotes(s) ==
    IF s = <<>> THEN <<>>
    ELSE (IF Head(s) = "\"" THEN <<"\"", "\"">> ELSE <<Head(s)>>)
             \o DoubleQuotes(Tail(s))

CsvField(s) ==
    IF NeedsQuote(s) THEN <<"\"">> \o DoubleQuotes(s) \o <<"\"">> ELSE s

\* One row as the csv writer emits it: the fields joined by "," and ended
\* by "\r\n" (the file is opened with newline="", so nothing is translated).
CsvLine(fields) ==
    JoinWith([i \in 1..Len(fields) |-> CsvField(fields[i])], <<",">>)
        \o <<"\r", "\n">>

\* What csv.DictWriter writes: the header row, then one row per record, each
\* row the record's values in the order of the fieldnames.
DictWriterText(m) ==
    CsvLine(Fieldnames)
        \o JoinWith([i \in 1..Len(m) |->
                        CsvLine(<<m[i].id, m[i].prefix, m[i].last3, m[i].file>>)],
                    <<>>)

\* The text written to manifest.csv: none at all for an empty manifest.
CsvText(m) == IF m # <<>> THEN DictWriterText(m) ELSE <<>>

HexLower == <<"0", "1", "2", "3", "4", "5", "6", "7",
              "8", "9", "a", "b", "c", "d", "e", "f">>

\* '\\u{0:04x}'.format(n) for n below 256
UnicodeEscape(n) ==
    <<"\\", "u", "0", "0", HexLower[(n \div 16) + 1], HexLower[(n % 16) + 1]>>

\* The escape of one character of a JSON string with ensure_ascii=False: the
\* quote, the backslash and every character below U+0020, the short forms
\* where JSON has one.
JsonEscapeChar(c) ==
    CASE c = "\"" -> <<"\\", "\"">>
      [] c = "\\" -> <<"\\", "\\">>
      [] c = "\n" -> <<"\\", "n">>
      [] c = "\r" -> <<"\\", "r">>
      [] c = "\t" -> <<"\\", "t">>
      [] c = "\f" -> <<"\\", "f">>
      [] c = "U+0008" -> <<"\\", "b">>
      [] OTHER -> IF IsControl(c) THEN UnicodeEscape(ControlOrd(c)) ELSE <<c>>

RECURSIVE JsonEscape(_)
\* The escapes of a JSON string with ensure_ascii=False.
JsonEscape(s) ==
    IF s = <<>> THEN <<>>
    ELSE JsonEscapeChar(Head(s)) \o JsonEscape(Tail(s))

JsonString(s) == <<"\"">> \o JsonEscape(s) \o <<"\"">>

\* One member of an object at indent level 2: four spaces, "key": "value".
JsonMember(key, value) ==
    <<" ", " ", " ", " ">> \o JsonString(key) \o <<":", " ">> \o JsonString(value)

\* One record at indent level 1, its keys in insertion order.
JsonObject(r) ==
    <<" ", " ", "{", "\n">>
        \o JoinWith(<<JsonMember(Str_id, r.id),
                      JsonMember(Str_prefix, r.prefix),
                      JsonMember(Str_last3, r.last3),
                      JsonMember(Str_file, r.file)>>, <<",", "\n">>)
        \o <<"\n", " ", " ", "}">>

\* json.dump(manifest, fp, indent=2, ensure_ascii=False)
JsonText(m) ==
    IF m = <<>> THEN <<"[", "]">>
    ELSE <<"[", "\n">>
             \o JoinWith([i \in 1..Len(m) |-> JsonObject(m[i])], <<",", "\n">>)
             \o <<"\n", "]">>

\* encoding="utf-8" of one character, a byte of a multi-byte character
\* written in hexadecimal.
Utf8Char(c) ==
    CASE c = "U+0663" -> <<"0xD9", "0xA3">>
      [] c = "U+00E9" -> <<"0xC3", "0xA9">>
      [] OTHER -> <<c>>

RECURSIVE Utf8(_)
\* text.encode("utf-8"): the encodings of the characters, in order (the text
\* is halved so that the recursion stays shallow).
Utf8(s) ==
    IF s = <<>> THEN <<>>
    ELSE IF Len(s) = 1 THEN Utf8Char(s[1])
    ELSE LET h == Len(s) \div 2
         IN  Utf8(SubSeq(s, 1, h)) \o Utf8(SubSeq(s, h + 1, Len(s)))

\* The manifests of the directories of the model and the bytes written for
\* each, computed once.
Manifests ==
    {BuildManifest(o) : o \in UNION {Orders(S) : S \in SUBSET GlobHtml(DirUniverse)}}

CsvBytesOf == [m \in Manifests |-> Utf8(CsvText(m))]

JsonBytesOf == [m \in Manifests |-> Utf8(JsonText(m))]

\* The bytes that the with-block of manifest.csv hands to the file.
CsvBytes(m) == IF m \in Manifests THEN CsvBytesOf[m] ELSE Utf8(CsvText(m))

\* The bytes that the with-block of manifest.json hands to the file.
JsonBytes(m) == IF m \in Manifests THEN JsonBytesOf[m] ELSE Utf8(JsonText(m))

\* A file opened for appending keeps what it held.
OpenAppend(old) == [exists |-> TRUE, content |-> old.content]

\* open(path, "w"): the file exists and is empty.
OpenWrite(old) == [exists |-> TRUE, content |-> <<>>]

\* The bytes buffered for fp, flushed when the with-block closes it, on a
\* filesystem that accepts `room` bytes: the first `room` of them reach the
\* file, and the flush raises OSError when that is not all of them.
WriteUpTo(fp, bytes, room) ==
    [exists |-> TRUE,
     content |-> fp.content
                   \o SubSeq(bytes, 1, IF room < Len(bytes) THEN room ELSE Len(bytes))]

WriteAll(fp, bytes) == WriteUpTo(fp, bytes, Len(bytes))

\* What is remembered of a previous run that did not complete.
NoPrev == [completed |-> FALSE, html |-> {}, csv |-> Absent, json |-> Absent]

(***************************************************************************)
(* Initial states.                                                         *)
(***************************************************************************)
FnInit ==
    /\ name \in Names
    /\ fpc = "start"
    /\ prefixOut = NotYet
    /\ last3Out = NotYet

FnOff ==
    /\ name = <<>>
    /\ fpc = "off"
    /\ prefixOut = NotYet
    /\ last3Out = NotYet

RunInit ==
    /\ dir = {}
    /\ readable = TRUE
    /\ csvFile = Absent
    /\ jsonFile = Absent
    /\ pc = "idle"
    /\ listing = <<>>
    /\ manifest = <<>>
    /\ opened = {}
    /\ failedAt = "none"
    /\ prev = NoPrev

Init == FnOff /\ RunInit

InitFn == FnInit /\ RunInit

(***************************************************************************)
(* The derivers applied to one filename, in the order of the loop body of  *)
(* scan_html_files.                                                        *)
(***************************************************************************)
DerivePrefix ==
    /\ fpc = "start"
    /\ prefixOut' = derive_prefix(name)
    /\ fpc' = "prefix"
    /\ UNCHANGED <<name, last3Out>>
    /\ UNCHANGED runVars

DeriveLast3 ==
    /\ fpc = "prefix"
    /\ last3Out' = derive_last3(name)
    /\ fpc' = "done"
    /\ UNCHANGED <<name, prefixOut>>
    /\ UNCHANGED runVars

NextFn == DerivePrefix \/ DeriveLast3

SpecFn == InitFn /\ [][NextFn]_vars

(***************************************************************************)
(* Runs of main, and the directory changing between them. opened (the      *)
(* output files this run has opened for writing), failedAt (where the run  *)
(* raised) and prev (what the previous run scanned and left behind, when   *)
(* it completed) are history variables.                                    *)
(***************************************************************************)
AddFile(f) ==
    /\ pc = "idle"
    /\ f \notin dir
    /\ Cardinality(dir) < MaxFiles
    /\ dir' = dir \cup {f}
    /\ UNCHANGED <<readable, csvFile, jsonFile, pc, listing, manifest, opened,
                   failedAt, prev>>
    /\ UNCHANGED fnVars

RemoveFile(f) ==
    /\ pc = "idle"
    /\ f \in dir
    /\ dir' = dir \ {f}
    /\ UNCHANGED <<readable, csvFile, jsonFile, pc, listing, manifest, opened,
                   failedAt, prev>>
    /\ UNCHANGED fnVars

\* The permission to list the directory is given or taken between runs.
Chmod ==
    /\ pc = "idle"
    /\ readable' = ~readable
    /\ UNCHANGED <<dir, csvFile, jsonFile, pc, listing, manifest, opened,
                   failedAt, prev>>
    /\ UNCHANGED fnVars

\* What root_path.glob("*.html") yields: pathlib swallows the PermissionError
\* of a directory it may not list and yields nothing.
Globbed == IF readable THEN GlobHtml(Entries) ELSE {}

\* main, up to the print that follows scan_html_files. A print raises when
\* stdout cannot take the text, and main catches nothing.
ScanHtmlFiles ==
    /\ pc = "idle"
    /\ \/ /\ \E yielded \in Orders(Globbed) :
                /\ listing' = yielded
                /\ manifest' = BuildManifest(yielded)
          /\ pc' = "scanned"
          /\ failedAt' = "none"
       \/ /\ pc' = "failed"
          /\ failedAt' = "print"
          /\ UNCHANGED <<listing, manifest>>
    /\ UNCHANGED <<dir, readable, csvFile, jsonFile, opened, prev>>
    /\ UNCHANGED fnVars

\* main, from the call of write_manifest to its end. open() raises OSError
\* when the path cannot be opened for writing; the flush at the end of a
\* with-block raises OSError when the filesystem accepts only a part of the
\* bytes (file-size limit, full disk), and that part stays in the file; a
\* print after write_manifest has returned raises as above.
WriteManifest ==
    /\ pc = "scanned"
    /\ LET csvBytes  == CsvBytes(manifest)
           jsonBytes == JsonBytes(manifest)
       IN  \/ /\ csvFile' = csvFile
              /\ jsonFile' = jsonFile
              /\ opened' = {}
              /\ pc' = "failed"
              /\ failedAt' = "csv"
           \/ /\ \E room \in 0..MaxQuota :
                    /\ room < Len(csvBytes)
                    /\ csvFile' = WriteUpTo(OpenWrite(csvFile), csvBytes, room)
              /\ jsonFile' = jsonFile
              /\ opened' = {"csv"}
              /\ pc' = "failed"
              /\ failedAt' = "csv"
           \/ /\ csvFile' = WriteAll(OpenWrite(csvFile), csvBytes)
              /\ jsonFile' = jsonFile
              /\ opened' = {"csv"}
              /\ pc' = "failed"
              /\ failedAt' = "json"
           \/ /\ csvFile' = WriteAll(OpenWrite(csvFile), csvBytes)
              /\ \E room \in 0..MaxQuota :
                    /\ room < Len(jsonBytes)
                    /\ jsonFile' = WriteUpTo(OpenWrite(jsonFile), jsonBytes, room)
              /\ opened' = {"csv", "json"}
              /\ pc' = "failed"
              /\ failedAt' = "json"
           \/ /\ csvFile' = WriteAll(OpenWrite(csvFile), csvBytes)
              /\ jsonFile' = WriteAll(OpenWrite(jsonFile), jsonBytes)
              /\ opened' = {"csv", "json"}
              /\ pc' = "failed"
              /\ failedAt' = "print"
           \/ /\ csvFile' = WriteAll(OpenWrite(csvFile), csvBytes)
              /\ jsonFile' = WriteAll(OpenWrite(jsonFile), jsonBytes)
              /\ opened' = {"csv", "json"}
              /\ pc' = "done"
              /\ failedAt' = "none"
    /\ listing' = <<>>
    /\ UNCHANGED <<dir, readable, manifest, prev>>
    /\ UNCHANGED fnVars

\* The process ends: its memory is gone, the output files stay.
Exit ==
    /\ pc \in {"done", "failed"}
    /\ prev' = IF pc = "done"
               THEN [completed |-> TRUE,
                     html |-> {manifest[i].file : i \in 1..Len(manifest)},
                     csv |-> csvFile,
                     json |-> jsonFile]
               ELSE NoPrev
    /\ pc' = "idle"
    /\ listing' = <<>>
    /\ manifest' = <<>>
    /\ opened' = {}
    /\ failedAt' = "none"
    /\ UNCHANGED <<dir, readable, csvFile, jsonFile>>
    /\ UNCHANGED fnVars

Next ==
    \/ \E f \in DirUniverse : AddFile(f)
    \/ \E f \in DirUniverse : RemoveFile(f)
    \/ Chmod
    \/ ScanHtmlFiles
    \/ WriteManifest
    \/ Exit

Spec == Init /\ [][Next]_vars

(***************************************************************************)
(* Properties.                                                             *)
(***************************************************************************)
Files(m) == {m[i].file : i \in 1..Len(m)}

\* The entries of the directory whose name ends in ".html".
HtmlInDir == {e \in dir : Len(e) >= 5 /\ SubSeq(e, Len(e) - 4, Len(e)) = DotHtml}

\* The ASCII letters of a filename, in order, lowercased.
LettersOf(s) == Lower(SelectSeq(s, IsAsciiLetter))

\* Length of a case-insensitive ".html" or ".htm" that ends the name, 0 if none.
ExtLen(s) ==
    IF Len(s) >= 5 /\ Lower(SubSeq(s, Len(s) - 4, Len(s))) = DotHtml THEN 5
    ELSE IF Len(s) >= 4 /\ Lower(SubSeq(s, Len(s) - 3, Len(s))) = SubSeq(DotHtml, 1, 4)
         THEN 4
    ELSE 0

\* The digits of the longest run of digits that ends at position e.
DigitsEndingAt(s, e) ==
    LET k == CHOOSE k \in 1..(e + 1) :
                 /\ \A i \in k..e : IsDigit(s[i])
                 /\ \A j \in 1..(k - 1) : \E i \in j..e : ~IsDigit(s[i])
    IN  SubSeq(s, k, e)

\* A capture left-padded with "0" to 3 characters and cut to its last 3.
PadCut(d) ==
    [i \in 1..3 |-> IF Len(d) - 3 + i >= 1 THEN d[Len(d) - 3 + i] ELSE "0"]

\* Pattern A: "(" digits ")" immediately before the extension that ends the name.
FormA(s) ==
    LET e == Len(s) - ExtLen(s)
        d == DigitsEndingAt(s, e - 1)
    IN  /\ ExtLen(s) > 0
        /\ e >= 3
        /\ s[e] = ")"
        /\ d # <<>>
        /\ e - 1 - Len(d) >= 1
        /\ s[e - 1 - Len(d)] = "("

\* Pattern B: "-" or "." and digits immediately before that extension.
FormB(s) ==
    LET e == Len(s) - ExtLen(s)
        d == DigitsEndingAt(s, e)
    IN  /\ ExtLen(s) > 0
        /\ e >= 2
        /\ d # <<>>
        /\ e - Len(d) >= 1
        /\ s[e - Len(d)] \in {"-", "."}

ClaimedLast3(s) ==
    LET e == Len(s) - ExtLen(s)
    IN  IF FormA(s) THEN PadCut(DigitsEndingAt(s, e - 1))
        ELSE IF FormB(s) THEN PadCut(DigitsEndingAt(s, e))
        ELSE Zeros

\* derive_last3 with the two patterns tried in the opposite order.
derive_last3_swapped(nm) ==
    LET a == PatternA(nm)
        b == PatternB(nm)
    IN  IF b # NoMatch THEN LastN(Zfill(b, 3), 3)
        ELSE IF a # NoMatch THEN LastN(Zfill(a, 3), 3)
        ELSE Zeros

\* C1: every record scan_html_files builds has a prefix of exactly 3
\* lowercase ASCII letters, a last3 of exactly 3 ASCII digits, an id equal
\* to prefix + "_" + last3, and the original filename as its file.
C1_RecordShape ==
    pc = "scanned" =>
        /\ Files(manifest) = Range(listing)
        /\ \A i \in 1..Len(manifest) :
              LET r == manifest[i]
              IN  /\ Len(r.prefix) = 3
                  /\ \A k \in 1..Len(r.prefix) : IsLower(r.prefix[k])
                  /\ Len(r.last3) = 3
                  /\ \A k \in 1..Len(r.last3) : IsAsciiDigit(r.last3[k])
                  /\ r.id = r.prefix \o <<"_">> \o r.last3

\* C2: derive_prefix returns "amx" for a filename whose name before the
\* .html extension has fewer than 3 ASCII letters, such as "123.html".
C2_FallbackBeforeExtension ==
    (/\ fpc # "start"
     /\ Len(name) >= 5
     /\ SubSeq(name, Len(name) - 4, Len(name)) = DotHtml
     /\ Len(LettersOf(SubSeq(name, 1, Len(name) - 5))) < 3)
    => prefixOut = Amx

\* C3: derive_last3 returns the padded and cut capture of Pattern A if the
\* name ends in "(digits)" and the extension, else that of Pattern B if it
\* ends in "-" or "." then digits and the extension, else "000".
C3_Last3Algorithm ==
    fpc = "done" => last3Out = ClaimedLast3(name)

\* The files that the glob of this run matches.
Matched == IF readable THEN HtmlInDir ELSE {}

\* C4: scan_html_files returns exactly one record per matched file, ordered
\* ascending by (prefix, file), the same for every order the lister yields.
C4_OneRecordPerFileSorted ==
    pc = "scanned" =>
        /\ Range(listing) = Matched
        /\ Len(manifest) = Cardinality(Matched)
        /\ Files(manifest) = Matched
        /\ \A i \in 1..Len(manifest) : \A j \in (i + 1)..Len(manifest) :
              \/ StrLess(manifest[i].prefix, manifest[j].prefix)
              \/ /\ manifest[i].prefix = manifest[j].prefix
                 /\ StrLess(manifest[i].file, manifest[j].file)
        /\ \A other \in Orders(Matched) : BuildManifest(other) = manifest

\* Two files with colliding ids were scanned, yielded in descending order of
\* name, and both records are in the manifest.
C4_Witness ==
    /\ pc = "scanned"
    /\ Len(manifest) = 2
    /\ manifest[1].id = manifest[2].id
    /\ StrLess(listing[2], listing[1])

\* "id,prefix,last3,file" and the line terminator, as bytes.
HeaderLine ==
    <<"i", "d", ",", "p", "r", "e", "f", "i", "x", ",",
      "l", "a", "s", "t", "3", ",", "f", "i", "l", "e", "\r", "\n">>

\* C5: after write_manifest completes, manifest.csv begins with the header
\* row; with zero records it holds the header only and manifest.json holds [].
C5_HeaderAlways ==
    pc = "done" =>
        /\ csvFile.exists
        /\ Len(csvFile.content) >= Len(HeaderLine)
        /\ SubSeq(csvFile.content, 1, Len(HeaderLine)) = HeaderLine
        /\ manifest = <<>> =>
              (csvFile.content = HeaderLine /\ jsonFile.content = <<"[", "]">>)

\* C6: a run that ends in an I/O failure on an output file has created,
\* truncated or rewritten neither output file, and a run on a directory that
\* cannot be listed opens neither.
C6_NoPartialOutput ==
    /\ (pc = "failed" /\ failedAt \in {"csv", "json"}) => opened = {}
    /\ (pc \in {"done", "failed"} /\ ~readable) => opened = {}

\* write_manifest has returned in this run: the run completed, or raised at
\* a print that follows the call.
Written ==
    pc = "done" \/ (pc = "failed" /\ failedAt = "print" /\ opened # {})

\* C7: a run that follows a completed run over the same HTML files leaves
\* manifest.csv and manifest.json as that run left them; the output files
\* are overwritten whole and never scanned as input.
C7_Idempotent ==
    /\ (Written /\ prev.completed /\ prev.html = Files(manifest))
         => (csvFile = prev.csv /\ jsonFile = prev.json)
    /\ Written =>
          (/\ csvFile.content = Utf8(CsvText(manifest))
           /\ jsonFile.content = Utf8(JsonText(manifest)))
    /\ pc = "scanned" =>
          (ManifestCsvName \notin Range(listing) /\ ManifestJsonName \notin Range(listing))

\* A second completed run over the same, non-empty set of HTML files.
C7_Witness ==
    /\ pc = "done"
    /\ prev.completed
    /\ prev.html = Files(manifest)
    /\ manifest # <<>>
    /\ prev.csv.exists /\ prev.json.exists
    /\ Len(csvFile.content) > Len(HeaderLine)

\* C8: derive_prefix returns "amx" if the filename has fewer than 3 ASCII
\* letters and otherwise its first 3 ASCII letters lowercased; an 'x' of a
\* returned prefix is a letter of the filename or the 'x' of "amx".
C8_PrefixAlgorithm ==
    fpc # "start" =>
        LET letters == LettersOf(name)
        IN  /\ Len(letters) < 3 => prefixOut = Amx
            /\ Len(letters) >= 3 => prefixOut = SubSeq(letters, 1, 3)
            /\ \A i \in 1..Len(prefixOut) :
                  prefixOut[i] = "x" =>
                      \/ Len(letters) < 3 /\ i = 3
                      \/ Len(letters) >= 3 /\ letters[i] = "x"

\* derive_prefix returned the fallback for a filename with one or two letters,
\* where padding would have given another tag.
C8_Witness ==
    /\ fpc # "start"
    /\ Len(LettersOf(name)) \in {1, 2}
    /\ prefixOut = Amx

\* C10: no filename matches both Pattern A and Pattern B, and derive_last3
\* with the patterns tried in the opposite order returns the same last3.
C10_PatternsExclusive ==
    fpc = "done" =>
        /\ ~(PatternA(name) # NoMatch /\ PatternB(name) # NoMatch)
        /\ last3Out = derive_last3_swapped(name)

\* derive_last3 ran on a filename holding a parenthesized digit group and a
\* dash-digit group, and one of the patterns matched.
C10_Witness ==
    /\ fpc = "done"
    /\ \E i \in 1..(Len(name) - 1) : name[i] = "(" /\ IsDigit(name[i + 1])
    /\ \E i \in 1..(Len(name) - 1) : name[i] = "-" /\ IsDigit(name[i + 1])
    /\ PatternA(name) # NoMatch \/ PatternB(name) # NoMatch
    /\ last3Out # Zeros

====
